---- MODULE Spec2Model ----
(***************************************************************************)
(* A model of the two scripts of sync-trekker-tokens:                      *)
(*                                                                         *)
(*   diff_tokens.py   the Token Differ: flatten two tokens documents,      *)
(*                    compute added / removed / changed, append one        *)
(*                    changelog entry to the new document in place;        *)
(*   build_tokens.py  the Token Builder: build the collections, back up    *)
(*                    the previous output, prune the backups, carry the    *)
(*                    changelog forward, write the output.                 *)
(*                                                                         *)
(* Strings are sequences of one-character strings ("h/t" is                *)
(* <<"h","/","t">>), so that startswith, split and the f-string that makes *)
(* a flattened key are computed on characters as the code computes them.   *)
(* A JSON value is a record tagged by its Python type: [num |-> 1],        *)
(* [text |-> s], [dict |-> f], [none |-> TRUE].  A Python dict is a        *)
(* function from keys to values; where the iteration order of a dict is    *)
(* observable (collections, groups) it is a sequence of [key, ...] records *)
(* with distinct keys.                                                     *)
(***************************************************************************)
EXTENDS Integers, Sequences, FiniteSets, TLC

VARIABLES
  files,     \* differ: path |-> the tokens document stored at that path
  last,      \* differ: what the last run of diff_tokens.py computed and did
  figma,     \* collection builders: the variable collections given as input
  built,     \* collection builders: the collection built from figma
  styles_json, \* collection builders: the text styles given as input
  outputs,   \* builder: the files of the output directory, name |-> file
  output_file, \* builder: sys.argv[3], the output path of the current run
  backups,   \* builder: the .backups directory, stamp |-> file
  clock,     \* the last value read from the UTC clock, in half seconds
  pc,        \* builder: position of main() in the current run
  locals,    \* builder: main()'s local variables in the current run
  runs,      \* builder: number of runs of main() that have ended
  exit,      \* builder: how the last run ended
  reads,     \* builder: the clock readings of the runs, one per run that built
  created,   \* builder: every backup path shutil.copy2 has written to
  deleted    \* builder: every backup path unlink() has removed

vars == <<files, last, figma, built, styles_json, outputs, output_file, backups, clock, pc,
          locals, runs, exit, reads, created, deleted>>

differVars == <<files, last>>
collectionVars == <<figma, built, styles_json>>
builderVars == <<outputs, output_file, backups, clock, pc, locals, runs, exit,
                 reads, created, deleted>>

\* output_path = Path(output_file): the file at the output path
output == outputs[output_file]

\* The names an output file is given; they are in one directory.
OutputFiles == {"tokens.json", "next.json"}

(***************************************************************************)
(* Bounds of the model.                                                    *)
(***************************************************************************)
\* tokens in the old and the new document together
MaxTokens == 2
\* entries a changelog may grow to
MaxLog == 2

(***************************************************************************)
(* Strings and JSON values.                                                *)
(***************************************************************************)
Num(n) == [num |-> n]
Text(s) == [text |-> s]
Dict(f) == [dict |-> f]
None == [none |-> TRUE]

IsDict(v) == "dict" \in DOMAIN v
IsStr(v) == "text" \in DOMAIN v

EmptyDict == [k \in {} |-> None]
Put(d, k, v) == [x \in (DOMAIN d) \cup {k} |-> IF x = k THEN v ELSE d[x]]

\* str.startswith(prefix)
startswith(s, prefix) ==
  /\ Len(s) >= Len(prefix)
  /\ SubSeq(s, 1, Len(prefix)) = prefix

\* The characters of the model's flattened keys, in code point order.
CodePoints == <<" ", "/", "0", "1", "2", "C", "D", "I", "L", "M", "S", "_",
                "a", "b", "c", "d", "e", "f", "g", "h", "i", "k", "l", "m",
                "n", "o", "p", "r", "s", "t", "u", "v", "x", "y", "z">>
Ord(c) == CHOOSE i \in 1..Len(CodePoints) : CodePoints[i] = c

\* Python's < on str: lexicographic by code point, a proper prefix first.
RECURSIVE StrLess(_, _)
StrLess(a, b) ==
  IF b = <<>> THEN FALSE
  ELSE IF a = <<>> THEN TRUE
  ELSE IF Head(a) = Head(b) THEN StrLess(Tail(a), Tail(b))
  ELSE Ord(Head(a)) < Ord(Head(b))

\* sorted() of a set of strings
RECURSIVE sorted(_)
sorted(S) ==
  IF S = {} THEN <<>>
  ELSE LET m == CHOOSE x \in S : \A y \in S : x = y \/ StrLess(x, y)
       IN <<m>> \o sorted(S \ {m})

S_name == <<"n", "a", "m", "e">>
S_value == <<"v", "a", "l", "u", "e">>
S_light == <<"l", "i", "g", "h", "t">>
S_dark == <<"d", "a", "r", "k">>
S_hex == <<"h", "e", "x">>
S_figmaId == <<"_", "f", "i", "g", "m", "a", "I", "d">>

(***************************************************************************)
(* diff_tokens.py                                                          *)
(***************************************************************************)

\* The mutant of flatten_key: the group is left out of the key.
flatten_key_no_group(coll_key, grp_key, name) ==
  coll_key \o <<"/">> \o name

\* f"{coll_key}/{grp_key}/{name}"
flatten_key(coll_key, grp_key, name) ==
  coll_key \o <<"/">> \o grp_key \o <<"/">> \o name

\* for t in items: tokens[key] = {...}     (a later token overwrites)
RECURSIVE flatten_items(_, _, _, _)
flatten_items(tokens, coll_key, grp_key, items) ==
  IF items = <<>> THEN tokens
  ELSE LET t == Head(items)
           name == t[S_name].text
           key == flatten_key(coll_key, grp_key, name)
           info == [raw |-> t, collection |-> coll_key, group |-> grp_key,
                    name |-> name]
       IN flatten_items(Put(tokens, key, info), coll_key, grp_key, Tail(items))

\* for grp_key, grp in coll.get("groups", {}).items(); grp.items is the list
\* under "tokens" (or, without it, under "styles")
RECURSIVE flatten_groups(_, _, _)
flatten_groups(tokens, coll_key, groups) ==
  IF groups = <<>> THEN tokens
  ELSE flatten_groups(
         flatten_items(tokens, coll_key, Head(groups).key, Head(groups).items),
         coll_key, Tail(groups))

\* for coll_key, coll in data.get("collections", {}).items()
RECURSIVE flatten_collections(_, _)
flatten_collections(tokens, collections) ==
  IF collections = <<>> THEN tokens
  ELSE flatten_collections(
         flatten_groups(tokens, Head(collections).key, Head(collections).groups),
         Tail(collections))

flatten_tokens(data) == flatten_collections(EmptyDict, data.collections)

extract_hex(mode_val) ==
  IF IsDict(mode_val)
  THEN (IF S_hex \in DOMAIN mode_val.dict THEN mode_val.dict[S_hex] ELSE None)
  ELSE IF IsStr(mode_val) THEN mode_val
  ELSE None

\* The result is a dict over a subset of "light", "dark", "value"; str(val) of a
\* dict is held as [repr |-> val].
token_display(token) ==
  LET r1 == IF S_light \in DOMAIN token
            THEN Put(EmptyDict, S_light, extract_hex(token[S_light]))
            ELSE EmptyDict
      r2 == IF S_dark \in DOMAIN token
            THEN Put(r1, S_dark, extract_hex(token[S_dark]))
            ELSE r1
  IN IF S_value \in DOMAIN token /\ S_light \notin DOMAIN token
     THEN Put(r2, S_value,
              IF IsDict(token[S_value]) THEN [repr |-> token[S_value]]
              ELSE token[S_value])
     ELSE r2

\* The mutant of comparable: no key is left out.
comparable_keeps_metadata(token) == token

\* {k: v for k, v in token.items() if not k.startswith("_")}
comparable(token) ==
  [k \in {x \in DOMAIN token : ~startswith(x, <<"_">>)} |-> token[k]]

added_entry(t) ==
  LET display == token_display(t.raw)
  IN IF display # EmptyDict
     THEN [type |-> "added", collection |-> t.collection, group |-> t.group,
           name |-> t.name, value |-> display]
     ELSE [type |-> "added", collection |-> t.collection, group |-> t.group,
           name |-> t.name]

removed_entry(t) ==
  [type |-> "removed", collection |-> t.collection, group |-> t.group,
   name |-> t.name]

changed_entry(o, t) ==
  [type |-> "changed", collection |-> t.collection, group |-> t.group,
   name |-> t.name, before |-> token_display(o.raw),
   after |-> token_display(t.raw)]

diff(old_data, new_data) ==
  LET old_tokens == flatten_tokens(old_data)
      new_tokens == flatten_tokens(new_data)
      old_keys == DOMAIN old_tokens
      new_keys == DOMAIN new_tokens
      add_keys == sorted(new_keys \ old_keys)
      rem_keys == sorted(old_keys \ new_keys)
      both_keys == sorted(old_keys \cap new_keys)
      added == [i \in 1..Len(add_keys) |-> added_entry(new_tokens[add_keys[i]])]
      removed == [i \in 1..Len(rem_keys) |-> removed_entry(old_tokens[rem_keys[i]])]
      is_changed(k) == comparable(old_tokens[k].raw) # comparable(new_tokens[k].raw)
      chg_keys == SelectSeq(both_keys, is_changed)
      changed == [i \in 1..Len(chg_keys) |->
                    changed_entry(old_tokens[chg_keys[i]], new_tokens[chg_keys[i]])]
  IN added \o removed \o changed

count_type(changes, type) ==
  Cardinality({i \in 1..Len(changes) : changes[i].type = type})

\* The mutant of no_changes: the run never returns early.
no_changes_never(changes) == FALSE

\* if not changes: ... return
no_changes(changes) == changes = <<>>

\* The mutant of append_entry: the new entry replaces the changelog.
append_entry_replaces(changelog, entry) == <<entry>>

\* changelog.append(entry)
append_entry(changelog, entry) == Append(changelog, entry)

\* notes or f"Sync: +{added} added, ~{changed} changed, -{removed} removed."
entry_notes(notes, added, changed, removed) ==
  IF notes # None /\ notes # Text(<<>>) THEN notes
  ELSE [sync |-> <<added, changed, removed>>]

\* new_data after lines 158-168
with_changelog_entry(new_data, changes, notes, now) ==
  LET added == count_type(changes, "added")
      changed == count_type(changes, "changed")
      removed == count_type(changes, "removed")
      entry == [date |-> now, changes |-> changes,
                summary |-> [added |-> added, changed |-> changed,
                             removed |-> removed],
                notes |-> entry_notes(notes, added, changed, removed)]
      changelog == IF new_data.has_changelog THEN new_data.changelog ELSE <<>>
  IN [new_data EXCEPT !.has_changelog = TRUE,
                      !.changelog = append_entry(changelog, entry)]

\* main() of diff_tokens.py on the two loaded documents, one whole run: the
\* line it prints ("Added: a, Changed: c, Removed: r"), whether it opens
\* new_path for writing, and the document it then dumps there
diff_main(old_data, new_data, notes, now) ==
  LET changes == diff(old_data, new_data)
      printed == [added |-> count_type(changes, "added"),
                  changed |-> count_type(changes, "changed"),
                  removed |-> count_type(changes, "removed")]
  IN IF no_changes(changes)
     THEN printed @@ [wrote |-> FALSE, written |-> None]
     ELSE printed @@ [wrote |-> TRUE,
                      written |-> with_changelog_entry(new_data, changes,
                                                       notes, now)]

changelog_length(data) == IF data.has_changelog THEN Len(data.changelog) ELSE 0

(***************************************************************************)
(* The differ's specification: two documents on disk, drawn from a bounded *)
(* set, and runs of diff_tokens.py against them.                           *)
(***************************************************************************)
Tok_t_1 == (S_name :> Text(<<"t">>)) @@ (S_value :> Num(1))
Tok_t_1_id == Tok_t_1 @@ (S_figmaId :> Text(<<"a">>))
Tok_t_2_id == (S_name :> Text(<<"t">>)) @@ (S_value :> Num(2))
              @@ (S_figmaId :> Text(<<"a">>))
Tok_ht_color == (S_name :> Text(<<"h", "/", "t">>))
                @@ (S_light :> Dict(S_hex :> Text(<<"e", "1">>)))
                @@ (S_dark :> Text(<<"1", "c">>))

TokenSet == {Tok_t_1, Tok_t_1_id, Tok_t_2_id, Tok_ht_color}
\* "g/h" + "t" and "g" + "h/t" flatten to the same key
GroupKeys == {<<"g">>, <<"g", "/", "h">>}
CollKey == <<"c">>

Document(collections) ==
  [collections |-> collections, has_changelog |-> FALSE, changelog |-> <<>>]

\* The orders in which a document may hold two groups.
GroupOrders == {ks \in GroupKeys \X GroupKeys : ks[1] # ks[2]}

\* The documents with exactly n tokens: one collection of one or two groups.
DocsOfSize(n) ==
  IF n = 0 THEN {Document(<<>>)}
  ELSE {Document(<<[key |-> CollKey, groups |-> <<[key |-> k, items |-> ts]>>]>>) :
          k \in GroupKeys, ts \in [1..n -> TokenSet]}
       \cup UNION {
         {Document(<<[key |-> CollKey,
                      groups |-> <<[key |-> ks[1], items |-> a],
                                   [key |-> ks[2], items |-> b]>>]>>) :
            ks \in GroupOrders,
            a \in [1..i -> TokenSet], b \in [1..(n - i) -> TokenSet]} :
         i \in 1..(n - 1)}

Paths == {"old", "new"}
NotesSet == {None, Text(<<"n">>)}

BuilderIdle ==
  /\ outputs = [p \in OutputFiles |-> [exists |-> FALSE]]
  /\ output_file = "tokens.json"
  /\ backups = EmptyDict
  /\ clock = 0
  /\ pc = "idle"
  /\ locals = None
  /\ runs = 0
  /\ exit = "none"
  /\ reads = {}
  /\ created = {}
  /\ deleted = {}

CollectionsIdle ==
  /\ figma = <<>>
  /\ built = None
  /\ styles_json = <<>>

InitDiff ==
  /\ \E a \in 0..MaxTokens : \E b \in 0..(MaxTokens - a) :
       \E o \in DocsOfSize(a), n \in DocsOfSize(b) :
         files = [old |-> o, new |-> n]
  /\ last = [ran |-> FALSE]
  /\ BuilderIdle
  /\ CollectionsIdle

\* One run of diff_tokens.py <old_path> <new_path> [--notes notes].
DiffFiles(old_path, new_path, notes) ==
  LET run == diff_main(files[old_path], files[new_path], notes, clock)
  IN /\ run.wrote => changelog_length(run.written) <= MaxLog
     /\ files' = IF run.wrote THEN [files EXCEPT ![new_path] = run.written]
                 ELSE files
     /\ last' = [ran |-> TRUE, old |-> old_path, new |-> new_path,
                 added |-> run.added, changed |-> run.changed,
                 removed |-> run.removed, wrote |-> run.wrote]

DiffRun ==
  /\ \E old_path \in Paths, notes \in NotesSet :
       DiffFiles(old_path, "new", notes)
  /\ UNCHANGED <<collectionVars, builderVars>>

NextDiff == DiffRun

SpecDiff == InitDiff /\ [][NextDiff]_vars

(***************************************************************************)
(* The differ's claims.                                                    *)
(***************************************************************************)
\* The run counted no change of any type.
NoChangeCounted(l) == l.added + l.changed + l.removed = 0

\* The list of changes of the last run: the one in the entry it appended.
LastChanges ==
  IF last.ran /\ last.wrote
  THEN files[last.new].changelog[Len(files[last.new].changelog)].changes
  ELSE <<>>

\* The key collection/group/name a change entry is about.
EntryKey(e) == e.collection \o <<"/">> \o e.group \o <<"/">> \o e.name

\* Every (collection, group, name) a document holds a token under.
DocTokens(doc) ==
  UNION {UNION {{[collection |-> doc.collections[c].key,
                  group |-> doc.collections[c].groups[g].key,
                  name |-> doc.collections[c].groups[g].items[i][S_name].text] :
                   i \in 1..Len(doc.collections[c].groups[g].items)} :
                g \in 1..Len(doc.collections[c].groups)} :
         c \in 1..Len(doc.collections)}

DocKeys(doc) == {EntryKey(t) : t \in DocTokens(doc)}

\* Two token objects differ in a key that does not start with "_".
DiffersOutsideMetadata(a, b) ==
  \E f \in (DOMAIN a) \cup (DOMAIN b) :
    /\ f = <<>> \/ f[1] # "_"
    /\ \/ f \notin DOMAIN a
       \/ f \notin DOMAIN b
       \/ a[f] # b[f]

EntriesOf(changes, type, k) ==
  {i \in 1..Len(changes) : changes[i].type = type /\ EntryKey(changes[i]) = k}

\* C1: a run of the differ that detects zero changes (every run of a document
\* against itself, or against an identical one, is such a run) does not open the
\* new document for writing and leaves every file exactly as it was: no entry is
\* appended.
C1_NoChangesNoWrite ==
  [][(/\ last'.ran
      /\ \/ NoChangeCounted(last')
         \/ files[last'.old] = files[last'.new])
     => (files' = files /\ ~last'.wrote)]_vars

\* C1's case: a run on a non-empty old document against a new one found nothing
\* to report.
C1_Witness ==
  /\ last.ran
  /\ last.old = "old"
  /\ ~last.wrote
  /\ NoChangeCounted(last)
  /\ files["old"].collections # <<>>

\* C2: for every flattened key present in both documents there is a 'changed'
\* entry exactly when the two token objects differ in some key that does not
\* start with "_"; a difference in _figmaId alone yields no 'changed' entry.
C2_ChangedIffDiffersOutsideMetadata ==
  last.ran =>
    LET o == flatten_tokens(files[last.old])
        n == flatten_tokens(files[last.new])
    IN \A k \in (DOMAIN o) \cap (DOMAIN n) :
         (EntriesOf(LastChanges, "changed", k) # {})
           <=> DiffersOutsideMetadata(o[k].raw, n[k].raw)

\* C2's case: a token whose only difference is its _figmaId, and a run that
\* reported no changed token.
C2_Witness ==
  /\ last.ran
  /\ last.changed = 0
  /\ LET o == flatten_tokens(files[last.old])
         n == flatten_tokens(files[last.new])
     IN \E k \in (DOMAIN o) \cap (DOMAIN n) :
          /\ o[k].raw # n[k].raw
          /\ ~DiffersOutsideMetadata(o[k].raw, n[k].raw)

\* C3: diff emits exactly one 'added' entry for each key collection/group/name
\* only the new document has and exactly one 'removed' entry for each key only
\* the old document has, each carrying a collection, group and name of a token
\* of that document under that key; no other 'added' or 'removed' entry is
\* emitted and no key has more than one change entry.
C3_AddedAndRemovedOncePerKey ==
  last.ran =>
    LET old_keys == DocKeys(files[last.old])
        new_keys == DocKeys(files[last.new])
        ch == LastChanges
        carried(i) == [collection |-> ch[i].collection, group |-> ch[i].group,
                       name |-> ch[i].name]
    IN /\ \A k \in new_keys \ old_keys :
            /\ Cardinality(EntriesOf(ch, "added", k)) = 1
            /\ \A i \in EntriesOf(ch, "added", k) :
                 carried(i) \in DocTokens(files[last.new])
       /\ \A k \in old_keys \ new_keys :
            /\ Cardinality(EntriesOf(ch, "removed", k)) = 1
            /\ \A i \in EntriesOf(ch, "removed", k) :
                 carried(i) \in DocTokens(files[last.old])
       /\ \A i \in 1..Len(ch) :
            /\ ch[i].type = "added" => EntryKey(ch[i]) \in new_keys \ old_keys
            /\ ch[i].type = "removed" => EntryKey(ch[i]) \in old_keys \ new_keys
       /\ \A i, j \in 1..Len(ch) :
            EntryKey(ch[i]) = EntryKey(ch[j]) => i = j

\* C3's case: a run that reported a token only the new document has and a token
\* only the old document has.
C3_Witness ==
  /\ last.ran
  /\ last.added = 1
  /\ last.removed = 1
  /\ Len(LastChanges) = 2

\* C4: when the differ detects a change, the new document's changelog after the
\* run is its changelog before the run (empty if it had none) followed by one new
\* entry, which holds the changes of this run; the collections of the new
\* document and every other file are as before.
C4_OneEntryAppended ==
  [][(last'.ran /\ ~NoChangeCounted(last'))
       => LET before == IF files["new"].has_changelog
                        THEN files["new"].changelog ELSE <<>>
              after == files'["new"].changelog
          IN /\ last'.wrote
             /\ files'["new"].has_changelog
             /\ Len(after) = Len(before) + 1
             /\ SubSeq(after, 1, Len(before)) = before
             /\ after[Len(after)].changes =
                  diff(files[last'.old], files[last'.new])
             /\ after[Len(after)].summary =
                  [added |-> last'.added, changed |-> last'.changed,
                   removed |-> last'.removed]
             /\ files'["new"].collections = files["new"].collections
             /\ files'["old"] = files["old"]]_vars

\* C4's case: a run appended an entry after the entry a former run had left.
C4_Witness ==
  /\ last.ran
  /\ last.wrote
  /\ Len(files["new"].changelog) = 2
  /\ files["new"].changelog[1].changes = files["new"].changelog[2].changes
  /\ last.added > 0

(***************************************************************************)
(* build_tokens.py: the collection builders.                               *)
(*                                                                         *)
(* A variable collection is [name, id, modes, variables]; a variable is    *)
(* [name, type, description, id, values], values being the dict from mode  *)
(* name to {resolved, aliasId, alias}.  A built collection is              *)
(* [name, meta, groups]: meta is None where the code sets no "_meta", and  *)
(* groups is the dict of the groups in insertion order, a sequence of      *)
(* [key, label, items], items being the list under "tokens".               *)
(***************************************************************************)
S_description == <<"d", "e", "s", "c", "r", "i", "p", "t", "i", "o", "n">>
S_aliasIds == <<"_", "a", "l", "i", "a", "s", "I", "d", "s">>
S_aliasId == <<"a", "l", "i", "a", "s", "I", "d">>
S_resolved == <<"r", "e", "s", "o", "l", "v", "e", "d">>
S_Light == <<"L", "i", "g", "h", "t">>
S_Dark == <<"D", "a", "r", "k">>
S_Mode1 == <<"M", "o", "d", "e", " ", "1">>
S_Color == <<"C", "o", "l", "o", "r">>
S_Size == <<"S", "i", "z", "e">>
S_size == <<"s", "i", "z", "e">>
S_spacing == <<"s", "p", "a", "c", "i", "n", "g">>
S_radius == <<"r", "a", "d", "i", "u", "s">>
S_stroke == <<"s", "t", "r", "o", "k", "e">>
S_Spacing == <<"S", "p", "a", "c", "i", "n", "g">>
S_Radius == <<"R", "a", "d", "i", "u", "s">>
S_Stroke == <<"S", "t", "r", "o", "k", "e">>

\* dict.get(key) with the default None
Get(d, k) == IF k \in DOMAIN d THEN d[k] ELSE None

\* for col in collections: if col.get("name") == name: return col
RECURSIVE find_collection(_, _)
find_collection(collections, name) ==
  IF collections = <<>> THEN None
  ELSE IF Head(collections).name = name THEN Head(collections)
  ELSE find_collection(Tail(collections), name)

\* {"collectionId": ..., "modes": {m["name"]: m["id"] for m in modes}}
get_collection_meta(collection) ==
  [collectionId |-> collection.id,
   modes |-> [n \in {collection.modes[i].name : i \in 1..Len(collection.modes)} |->
                LET i == CHOOSE j \in 1..Len(collection.modes) :
                           /\ collection.modes[j].name = n
                           /\ \A l \in (j + 1)..Len(collection.modes) :
                                collection.modes[l].name # n
                IN collection.modes[i].id]]

\* {"_figmaId": id} and, when some mode holds an aliasId, "_aliasIds"
get_figma_ids(var) ==
  LET alias_ids == [m \in {x \in DOMAIN var.values : S_aliasId \in DOMAIN var.values[x]} |->
                      var.values[m][S_aliasId]]
      ids == Put(EmptyDict, S_figmaId, var.id)
  IN IF alias_ids # EmptyDict THEN Put(ids, S_aliasIds, Dict(alias_ids)) ELSE ids

\* var_name.split("/")[0] if "/" in var_name else var_name
RECURSIVE first_segment(_)
first_segment(s) ==
  IF s = <<>> \/ Head(s) = "/" THEN <<>>
  ELSE <<Head(s)>> \o first_segment(Tail(s))

\* {"name": var_name, "value": resolved, "description": description, **figma_ids}
size_token(var, mode) ==
  (S_name :> Text(var.name))
    @@ (S_value :> Get(var.values[mode], S_resolved))
    @@ (S_description :> Text(var.description))
    @@ get_figma_ids(var)

\* The tokens the loop over size_col's variables appends to groups[grp]:
\* first_segment == grp, and a token only if "Mode 1" in var.get("values", {})
RECURSIVE size_own_tokens(_, _)
size_own_tokens(variables, grp) ==
  IF variables = <<>> THEN <<>>
  ELSE LET var == Head(variables)
           rest == size_own_tokens(Tail(variables), grp)
       IN IF first_segment(var.name) = grp /\ S_Mode1 \in DOMAIN var.values
          THEN <<size_token(var, S_Mode1)>> \o rest
          ELSE rest

\* The mutant of size_color_strokes: the Color variable is looked up under the
\* Size collection's mode name.
RECURSIVE size_color_strokes_mode1(_)
size_color_strokes_mode1(variables) ==
  IF variables = <<>> THEN <<>>
  ELSE LET var == Head(variables)
           rest == size_color_strokes_mode1(Tail(variables))
       IN IF startswith(var.name, S_stroke \o <<"/">>) /\ S_Mode1 \in DOMAIN var.values
          THEN <<size_token(var, S_Mode1)>> \o rest
          ELSE rest

\* The tokens the loop over color_col's variables appends to groups["stroke"]:
\* var_name.startswith("stroke/"), and a token only if "Light" in values
RECURSIVE size_color_strokes(_)
size_color_strokes(variables) ==
  IF variables = <<>> THEN <<>>
  ELSE LET var == Head(variables)
           rest == size_color_strokes(Tail(variables))
       IN IF startswith(var.name, S_stroke \o <<"/">>) /\ S_Light \in DOMAIN var.values
          THEN <<size_token(var, S_Light)>> \o rest
          ELSE rest

\* groups = {k: v for k, v in groups.items() if v["tokens"]}
non_empty_groups(groups) == SelectSeq(groups, LAMBDA g : g.items # <<>>)

\* if not size_col: return {"name": "Size", "groups": {}}
size_missing(figma_data) ==
  [name |-> S_Size, meta |-> None, groups |-> <<>>]

build_size_collection(figma_data) ==
  LET size_col == find_collection(figma_data, S_Size)
      color_col == find_collection(figma_data, S_Color)
      strokes == IF color_col # None
                 THEN size_color_strokes(color_col.variables) ELSE <<>>
  IN IF size_col = None THEN size_missing(figma_data)
     ELSE [name |-> S_Size,
           meta |-> get_collection_meta(size_col),
           groups |-> non_empty_groups(
             <<[key |-> S_spacing, label |-> S_Spacing,
                items |-> size_own_tokens(size_col.variables, S_spacing)],
               [key |-> S_radius, label |-> S_Radius,
                items |-> size_own_tokens(size_col.variables, S_radius)],
               [key |-> S_stroke, label |-> S_Stroke,
                items |-> size_own_tokens(size_col.variables, S_stroke)
                            \o strokes]>>)]

(***************************************************************************)
(* The collection builders' specification: variable collections drawn from *)
(* a bounded set, and one run of a builder on them.                        *)
(***************************************************************************)
\* variables in one collection
MaxVars == 2

Variable(name, type, id, values) ==
  [name |-> name, type |-> type, description |-> <<>>, id |-> Text(id),
   values |-> values]

Resolved(v) == S_resolved :> Num(v)

ColorVariables ==
  {Variable(S_stroke \o <<"/", "x">>, "FLOAT", <<"c", "1">>,
            (S_Light :> Resolved(1)) @@ (S_Dark :> Resolved(2))),
   Variable(S_stroke \o <<"/", "y">>, "FLOAT", <<"c", "2">>,
            S_Dark :> Resolved(2)),
   Variable(S_stroke, "FLOAT", <<"c", "3">>, S_Light :> Resolved(1)),
   Variable(<<"t", "e", "x", "t", "/", "x">>, "COLOR", <<"c", "4">>,
            S_Light :> (S_aliasId :> Text(<<"c", "1">>)))}

SizeVariables ==
  {Variable(S_stroke \o <<"/", "s">>, "FLOAT", <<"s", "1">>,
            S_Mode1 :> Resolved(1)),
   Variable(S_spacing \o <<"/", "s">>, "FLOAT", <<"s", "2">>,
            S_Mode1 :> Resolved(2)),
   Variable(S_radius \o <<"/", "s">>, "FLOAT", <<"s", "3">>,
            S_Light :> Resolved(2)),
   Variable(<<"g", "a", "p", "/", "s">>, "FLOAT", <<"s", "4">>,
            S_Mode1 :> Resolved(1))}

Collection(name, id, modes, variables) ==
  [name |-> name, id |-> Text(id),
   modes |-> [i \in 1..Len(modes) |-> [name |-> modes[i], id |-> Text(<<"m">>)]],
   variables |-> variables]

VariableLists(S) == UNION {[1..n -> S] : n \in 0..MaxVars}

ColorCollections ==
  {Collection(S_Color, <<"C">>, <<S_Light, S_Dark>>, vs) :
     vs \in VariableLists(ColorVariables)}

SizeCollections ==
  {Collection(S_Size, <<"S">>, <<S_Mode1>>, vs) :
     vs \in VariableLists(SizeVariables)}

\* The inputs: a Color collection or none, then a Size collection or none.
FigmaInputs ==
  {c \o z : c \in {<<>>} \cup {<<x>> : x \in ColorCollections},
            z \in {<<>>} \cup {<<x>> : x \in SizeCollections}}

InitCollections ==
  /\ figma \in FigmaInputs
  /\ built = None
  /\ styles_json = <<>>
  /\ files = [old |-> Document(<<>>), new |-> Document(<<>>)]
  /\ last = [ran |-> FALSE]
  /\ BuilderIdle

BuildSize ==
  /\ built = None
  /\ built' = [builder |-> "size", collection |-> build_size_collection(figma)]
  /\ UNCHANGED <<figma, styles_json, differVars, builderVars>>

NextCollections == BuildSize

SpecCollections == InitCollections /\ [][NextCollections]_vars

(***************************************************************************)
(* The collection builders' claims.                                        *)
(***************************************************************************)
\* The variables of the collections named `name` in the input.
VariablesOf(name) ==
  UNION {{figma[c].variables[i] : i \in 1..Len(figma[c].variables)} :
         c \in {x \in 1..Len(figma) : figma[x].name = name}}

\* The tokens of group `key` of a built collection.
GroupTokens(collection, key) ==
  UNION {{collection.groups[g].items[i] : i \in 1..Len(collection.groups[g].items)} :
         g \in {x \in 1..Len(collection.groups) : collection.groups[x].key = key}}

\* A variable is a token of the group: its name, and its value under the mode.
IsTokenOf(var, mode, tokens) ==
  \E t \in tokens :
    /\ t[S_name] = Text(var.name)
    /\ t[S_value] = Get(var.values[mode], S_resolved)
    /\ t[S_figmaId] = var.id

\* A Color variable named stroke/... that has a value under Light.
IsColorStroke(var) ==
  /\ Len(var.name) >= 7
  /\ SubSeq(var.name, 1, 7) = <<"s", "t", "r", "o", "k", "e", "/">>
  /\ S_Light \in DOMAIN var.values

\* Every such variable is a token of the stroke group of the built Size
\* collection.
ColorStrokesMerged ==
  \A var \in VariablesOf(S_Color) :
    IsColorStroke(var) =>
      IsTokenOf(var, S_Light, GroupTokens(built.collection, S_stroke))

\* Every Size variable of a known group that has a value under "Mode 1" is a
\* token of its group.
SizeVariablesKept ==
  \A var \in VariablesOf(S_Size) :
    \A grp \in {S_spacing, S_radius, S_stroke} :
      (first_segment(var.name) = grp /\ S_Mode1 \in DOMAIN var.values) =>
        IsTokenOf(var, S_Mode1, GroupTokens(built.collection, grp))

HasSizeCollection == \E c \in 1..Len(figma) : figma[c].name = S_Size

SizeBuilt == built # None /\ built.builder = "size"

\* C10 as stated: for every input, each Color variable named stroke/... with a
\* Light value is a token of the stroke group of the built Size collection, next
\* to the Size collection's own variables.
C10_StrokesMergedForEveryInput ==
  SizeBuilt => (ColorStrokesMerged /\ SizeVariablesKept)

\* C10 as amended: the same, for every input that holds a Size collection.
C10_StrokesMergedWhenSizeExists ==
  (SizeBuilt /\ HasSizeCollection) => (ColorStrokesMerged /\ SizeVariablesKept)

\* C10's case: the input has a Size collection with a stroke variable of its own
\* and a Color collection with a stroke/... variable under Light, and the Size
\* collection has been built.
C10_Witness ==
  /\ SizeBuilt
  /\ HasSizeCollection
  /\ \E var \in VariablesOf(S_Color) : IsColorStroke(var)
  /\ \E var \in VariablesOf(S_Size) :
       first_segment(var.name) = S_stroke /\ S_Mode1 \in DOMAIN var.values
  /\ Cardinality(GroupTokens(built.collection, S_stroke)) >= 2

(***************************************************************************)
(* build_tokens.py: build_styles_collection.                               *)
(*                                                                         *)
(* A text style is a dict like a token: a function from keys to values.    *)
(* A number is Num(n) for an integer n, or NegHalf for -0.5.               *)
(***************************************************************************)
S_Typography == <<"T", "y", "p", "o", "g", "r", "a", "p", "h", "y">>
S_Default == <<"D", "e", "f", "a", "u", "l", "t">>
S_family == <<"f", "a", "m", "i", "l", "y">>
S_weight == <<"w", "e", "i", "g", "h", "t">>
S_height == <<"h", "e", "i", "g", "h", "t">>
S_heading == <<"h", "e", "a", "d", "i", "n", "g">>
S_body == <<"b", "o", "d", "y">>
S_technical == <<"t", "e", "c", "h", "n", "i", "c", "a", "l">>
S_fontFamily == <<"f", "o", "n", "t", "F", "a", "m", "i", "l", "y">>
S_fontStyle == <<"f", "o", "n", "t", "S", "t", "y", "l", "e">>
S_fontSize == <<"f", "o", "n", "t", "S", "i", "z", "e">>
S_lineHeight == <<"l", "i", "n", "e", "H", "e", "i", "g", "h", "t">>
S_letterSpacing == <<"l", "e", "t", "t", "e", "r", "S", "p", "a", "c", "i", "n", "g">>
S_fontWeight == <<"f", "o", "n", "t", "W", "e", "i", "g", "h", "t">>
S_recipe == <<"r", "e", "c", "i", "p", "e">>
S_text_dot == <<"t", "e", "x", "t", ".">>

\* The JSON number -0.5
NegHalf == [num |-> -1, den |-> 2]

\* sub in s, on str
contains(s, sub) ==
  \E i \in 0..(Len(s) - Len(sub)) : SubSeq(s, i + 1, i + Len(sub)) = sub

\* s.replace("/", ".")
replace_slash(s) == [i \in 1..Len(s) |-> IF s[i] = "/" THEN "." ELSE s[i]]

UpperCase == <<"A", "B", "C", "D", "E", "F", "G", "H", "I", "J", "K", "L", "M",
               "N", "O", "P", "Q", "R", "S", "T", "U", "V", "W", "X", "Y", "Z">>
LowerCase == <<"a", "b", "c", "d", "e", "f", "g", "h", "i", "j", "k", "l", "m",
               "n", "o", "p", "q", "r", "s", "t", "u", "v", "w", "x", "y", "z">>

\* s.lower()
lower(s) ==
  [i \in 1..Len(s) |->
     IF \E j \in 1..26 : UpperCase[j] = s[i]
     THEN LowerCase[CHOOSE j \in 1..26 : UpperCase[j] = s[i]]
     ELSE s[i]]

Digits == <<"0", "1", "2", "3", "4", "5", "6", "7", "8", "9">>

\* str(n) of an int
RECURSIVE str_int(_)
str_int(n) ==
  IF n < 0 THEN <<"-">> \o str_int(0 - n)
  ELSE IF n < 10 THEN <<Digits[n + 1]>>
  ELSE str_int(n \div 10) \o <<Digits[(n % 10) + 1]>>

\* f"{letter_spacing}"
format_value(v) ==
  IF v = None THEN <<"N", "o", "n", "e">>
  ELSE IF v = NegHalf THEN <<"-", "0", ".", "5">>
  ELSE IF DOMAIN v = {"num"} THEN str_int(v.num)
  ELSE v.text

\* var.get("values", {}).get("Default", {}).get("resolved")
default_resolved(var) ==
  IF S_Default \in DOMAIN var.values
  THEN Get(var.values[S_Default], S_resolved)
  ELSE None

NoMaps == [family |-> EmptyDict, weight |-> EmptyDict, size |-> EmptyDict,
           height |-> EmptyDict]

\* Lines 293-307: the four value -> variable name maps, a later variable
\* replacing an earlier one of the same value.
RECURSIVE typography_maps(_)
typography_maps(variables) ==
  IF variables = <<>> THEN NoMaps
  ELSE LET n == Len(variables)
           maps == typography_maps(SubSeq(variables, 1, n - 1))
           var == variables[n]
           resolved == default_resolved(var)
       IN IF resolved = None THEN maps
          ELSE IF contains(var.name, S_family) /\ var.type = "STRING"
          THEN [maps EXCEPT !.family = Put(@, resolved, Text(var.name))]
          ELSE IF contains(var.name, S_weight) /\ var.type = "STRING"
          THEN [maps EXCEPT !.weight = Put(@, resolved, Text(var.name))]
          ELSE IF contains(var.name, S_size) /\ var.type = "FLOAT"
          THEN [maps EXCEPT !.size = Put(@, resolved, Text(var.name))]
          ELSE IF contains(var.name, S_height) /\ var.type = "FLOAT"
          THEN [maps EXCEPT !.height = Put(@, resolved, Text(var.name))]
          ELSE maps

\* Lines 284-307
styles_maps(figma_data) ==
  LET typo_col == find_collection(figma_data, S_Typography)
  IN IF typo_col # None THEN typography_maps(typo_col.variables) ELSE NoMaps

\* if value in map: recipe[field] = map[value]
recipe_matched(recipe, field, value, map) ==
  IF value \in DOMAIN map THEN Put(recipe, field, map[value]) ELSE recipe

\* Lines 345-348: recipe["fontWeight"] = f"font/weight/{weight_lower}"
recipe_weight(recipe, style, maps) ==
  LET font_style == Get(style, S_fontStyle)
      weight_lower == IF font_style # None /\ font_style.text # <<>>
                      THEN lower(font_style.text) ELSE <<"r", "e", "g", "u", "l", "a", "r">>
  IN Put(recipe, S_fontWeight, Text(<<"f", "o", "n", "t", "/", "w", "e", "i", "g", "h", "t", "/">> \o weight_lower))

\* Lines 361-367
recipe_spacing(recipe, style) ==
  LET letter_spacing == Get(style, S_letterSpacing)
  IN Put(recipe, S_letterSpacing,
         Text(<<"f", "o", "n", "t", "/", "s", "p", "a", "c", "i", "n", "g", "/">> \o
              (IF letter_spacing = NegHalf THEN <<"t", "i", "g", "h", "t">>
               ELSE IF letter_spacing = Num(0) THEN <<"n", "o", "r", "m", "a", "l">>
               ELSE format_value(letter_spacing))))

\* Lines 337-367
style_recipe(style, maps) ==
  LET family == recipe_matched(EmptyDict, S_fontFamily,
                               Get(style, S_fontFamily), maps.family)
      weight == recipe_weight(family, style, maps)
      size == recipe_matched(weight, S_fontSize, Get(style, S_fontSize),
                             maps.size)
      height == recipe_matched(size, S_lineHeight, Get(style, S_lineHeight),
                               maps.height)
  IN recipe_spacing(height, style)

\* Lines 324-334
style_specimen(style_name) ==
  LET seg == first_segment(style_name)
  IN IF seg = S_heading THEN <<"F", "i", "r", "e">>
     ELSE IF seg = S_body THEN <<"T", "h", "r", "o", "u", "g", "h">>
     ELSE IF contains(style_name, <<"c", "o", "d", "e">>) THEN <<"c", "o", "n", "s", "t">>
     ELSE <<"0", "1", "2", "3", "4", "5", "6", "7", "8", "9">>

\* Lines 369-380
style_token(style, maps) ==
  (S_name :> Text(S_text_dot \o replace_slash(style[S_name].text)))
    @@ (<<"s", "p", "e", "c", "i", "m", "e", "n">> :> Text(style_specimen(style[S_name].text)))
    @@ (S_resolved :>
          Dict([f \in {S_fontFamily, S_fontStyle, S_fontSize, S_lineHeight,
                       S_letterSpacing} |-> Get(style, f)]))
    @@ (S_recipe :> Dict(style_recipe(style, maps)))

\* Lines 313-382: the style tokens of one group, in the order of the input
RECURSIVE group_styles(_, _, _)
group_styles(styles, grp, maps) ==
  IF styles = <<>> THEN <<>>
  ELSE LET style == Head(styles)
           rest == group_styles(Tail(styles), grp, maps)
       IN IF first_segment(style[S_name].text) = grp
          THEN <<style_token(style, maps)>> \o rest
          ELSE rest

build_styles_collection(figma_data, styles) ==
  LET maps == styles_maps(figma_data)
  IN [name |-> <<"S", "t", "y", "l", "e", "s">>,
      meta |-> None,
      groups |-> <<[key |-> S_heading, label |-> <<"H", "e", "a", "d", "i", "n", "g">>,
                    items |-> group_styles(styles, S_heading, maps)],
                   [key |-> S_body, label |-> <<"B", "o", "d", "y">>,
                    items |-> group_styles(styles, S_body, maps)],
                   [key |-> S_technical, label |-> <<"T", "e", "c", "h", "n", "i", "c", "a", "l">>,
                    items |-> group_styles(styles, S_technical, maps)]>>]

(***************************************************************************)
(* build_tokens.py: build_typography_collection, build_state_collection.   *)
(***************************************************************************)
S_State == <<"S", "t", "a", "t", "e">>
S_interaction == <<"i", "n", "t", "e", "r", "a", "c", "t", "i", "o", "n">>
S_Interaction == <<"I", "n", "t", "e", "r", "a", "c", "t", "i", "o", "n">>
S_default == <<"d", "e", "f", "a", "u", "l", "t">>

\* var_name.split("/")[1:], joined again: what follows the first "/"
RECURSIVE after_first_slash(_)
after_first_slash(s) ==
  IF s = <<>> THEN <<>>
  ELSE IF Head(s) = "/" THEN Tail(s)
  ELSE after_first_slash(Tail(s))

\* parts = var_name.split("/"); len(parts) >= 2
has_two_parts(s) == \E i \in 1..Len(s) : s[i] = "/"

\* parts[1]
second_segment(s) == first_segment(after_first_slash(s))

\* Lines 192-200: the token; "value" is set for a STRING or a FLOAT variable
typography_token(var) ==
  LET token == (S_name :> Text(var.name))
                 @@ (S_description :> Text(var.description))
                 @@ get_figma_ids(var)
      resolved == Get(var.values[S_Default], S_resolved)
  IN IF var.type = "STRING" \/ var.type = "FLOAT"
     THEN Put(token, S_value, resolved)
     ELSE token

\* Lines 173-202: the tokens of one group, in the order of the variables
RECURSIVE typography_tokens(_, _)
typography_tokens(variables, grp) ==
  IF variables = <<>> THEN <<>>
  ELSE LET var == Head(variables)
           rest == typography_tokens(Tail(variables), grp)
       IN IF /\ has_two_parts(var.name)
             /\ second_segment(var.name) = grp
             /\ S_Default \in DOMAIN var.values
          THEN <<typography_token(var)>> \o rest
          ELSE rest

build_typography_collection(figma_data) ==
  LET typo_col == find_collection(figma_data, S_Typography)
      group(key, label) ==
        [key |-> key, label |-> label,
         items |-> typography_tokens(typo_col.variables, key)]
  IN IF typo_col = None
     THEN [name |-> S_Typography, meta |-> None, groups |-> <<>>]
     ELSE [name |-> S_Typography,
           meta |-> get_collection_meta(typo_col),
           groups |-> non_empty_groups(
             <<group(S_family, <<"F", "a", "m", "i", "l", "y">>), group(S_weight, <<"W", "e", "i", "g", "h", "t">>),
               group(S_size, S_Size), group(S_height, <<"H", "e", "i", "g", "h", "t">>),
               group(S_spacing, S_Spacing)>>)]

\* Lines 409-415
state_token(var) ==
  (S_name :> Text(var.name))
    @@ (<<"t", "y", "p", "e">> :> Text(<<var.type>>))
    @@ (S_value :> Get(var.values[S_Mode1], S_resolved))
    @@ (S_description :> Text(var.description))
    @@ get_figma_ids(var)

\* Lines 400-416
RECURSIVE state_tokens(_)
state_tokens(variables) ==
  IF variables = <<>> THEN <<>>
  ELSE LET var == Head(variables)
           rest == state_tokens(Tail(variables))
       IN IF S_Mode1 \in DOMAIN var.values
          THEN <<state_token(var)>> \o rest
          ELSE rest

build_state_collection(figma_data) ==
  LET state_col == find_collection(figma_data, S_State)
  IN IF state_col = None
     THEN [name |-> S_State, modes |-> <<S_default>>, meta |-> None,
           groups |-> <<[key |-> S_interaction, label |-> S_Interaction,
                         items |-> <<>>]>>]
     ELSE [name |-> S_State, modes |-> <<S_default>>,
           meta |-> get_collection_meta(state_col),
           groups |-> <<[key |-> S_interaction, label |-> S_Interaction,
                         items |-> state_tokens(state_col.variables)]>>]

(***************************************************************************)
(* The styles builder's specification: a Typography collection or none and *)
(* a bounded list of text styles, and one call of the builder.             *)
(***************************************************************************)
\* text styles in the input
MaxStyles == 2

ResolvedText(s) == S_resolved :> Text(s)

TypographyVariables ==
  {Variable(<<"f", "o", "n", "t", "/", "f", "a", "m", "i", "l", "y", "/", "b", "o", "d", "y">>, "STRING", <<"t", "1">>, S_Default :> ResolvedText(<<"O">>)),
   Variable(<<"f", "o", "n", "t", "/", "w", "e", "i", "g", "h", "t", "/", "b", "o", "l", "d">>, "STRING", <<"t", "2">>,
            S_Default :> ResolvedText(<<"B", "o", "l", "d">>)),
   Variable(<<"f", "o", "n", "t", "/", "s", "i", "z", "e", "/", "1">>, "FLOAT", <<"t", "3">>, S_Default :> Resolved(1)),
   Variable(<<"f", "o", "n", "t", "/", "h", "e", "i", "g", "h", "t", "/", "1">>, "FLOAT", <<"t", "4">>, S_Default :> Resolved(2)),
   Variable(<<"f", "o", "n", "t", "/", "s", "i", "z", "e", "/", "2">>, "FLOAT", <<"t", "5">>, S_Light :> Resolved(3)),
   Variable(<<"f", "o", "n", "t", "/", "s", "i", "z", "e", "/", "x">>, "FLOAT", <<"t", "6">>, S_Default :> Resolved(1))}

TypographyCollections ==
  {Collection(S_Typography, <<"T">>, <<S_Default>>, vs) :
     vs \in VariableLists(TypographyVariables)}

TextStyle(name, family, style, size, height, spacing) ==
  [k \in {S_name} \cup {f \in {S_fontFamily, S_fontStyle, S_fontSize,
                               S_lineHeight, S_letterSpacing} :
                          (CASE f = S_fontFamily -> family
                             [] f = S_fontStyle -> style
                             [] f = S_fontSize -> size
                             [] f = S_lineHeight -> height
                             [] OTHER -> spacing) # None} |->
     CASE k = S_name -> Text(name)
       [] k = S_fontFamily -> family
       [] k = S_fontStyle -> style
       [] k = S_fontSize -> size
       [] k = S_lineHeight -> height
       [] OTHER -> spacing]

TextStyles ==
  {TextStyle(<<"h", "e", "a", "d", "i", "n", "g", "/", "x">>, Text(<<"O">>), Text(<<"B", "o", "l", "d">>), Num(1), Num(2),
             Num(0)),
   TextStyle(<<"b", "o", "d", "y", "/", "x">>, Text(<<"Z">>), None, Num(3), Num(3), NegHalf),
   TextStyle(<<"t", "e", "c", "h", "n", "i", "c", "a", "l", "/", "c", "o", "d", "e">>, None, Text(<<"B", "o", "l", "d">>), Num(1), None, Num(2)),
   TextStyle(<<"o", "t", "h", "e", "r", "/", "x">>, Text(<<"O">>), None, Num(1), Num(2), Num(0))}

StyleLists == UNION {[1..n -> TextStyles] : n \in 0..MaxStyles}

InitStyles ==
  /\ figma \in {<<>>} \cup {<<x>> : x \in TypographyCollections}
  /\ styles_json \in StyleLists
  /\ built = None
  /\ files = [old |-> Document(<<>>), new |-> Document(<<>>)]
  /\ last = [ran |-> FALSE]
  /\ BuilderIdle

BuildStyles ==
  /\ built = None
  /\ built' = [builder |-> "styles",
               collection |-> build_styles_collection(figma, styles_json)]
  /\ UNCHANGED <<figma, styles_json, differVars, builderVars>>

NextStyles == BuildStyles

SpecStyles == InitStyles /\ [][NextStyles]_vars

(***************************************************************************)
(* The styles builder's claims.                                            *)
(***************************************************************************)
StylesBuilt == built # None /\ built.builder = "styles"

\* The style tokens the built collection holds for a text style of the input.
TokensOfStyle(style) ==
  {t \in GroupTokens(built.collection, first_segment(style[S_name].text)) :
     t[S_name] = Text(S_text_dot \o replace_slash(style[S_name].text))}

\* The text styles of the input that belong to a group.
GroupedStyles ==
  {styles_json[i] : i \in {j \in 1..Len(styles_json) :
     first_segment(styles_json[j][S_name].text)
       \in {S_heading, S_body, S_technical}}}

\* The recipe holds the field only if the style's value of the key is in the
\* map, and it then holds the name the map gives.
FieldOnlyWhenMatched(style, field, key, map) ==
  \A t \in TokensOfStyle(style) :
    field \in DOMAIN t[S_recipe].dict =>
      /\ Get(style, key) \in DOMAIN map
      /\ t[S_recipe].dict[field] = map[Get(style, key)]

\* fontFamily, fontSize and lineHeight are in the recipe exactly when their value
\* is in the map.
LookedUpFieldsMatched ==
  StylesBuilt =>
    \A style \in GroupedStyles :
      LET maps == styles_maps(figma)
      IN /\ TokensOfStyle(style) # {}
         /\ FieldOnlyWhenMatched(style, S_fontFamily, S_fontFamily, maps.family)
         /\ FieldOnlyWhenMatched(style, S_fontSize, S_fontSize, maps.size)
         /\ FieldOnlyWhenMatched(style, S_lineHeight, S_lineHeight, maps.height)

\* C11 as stated: for every text style each of fontFamily, fontWeight, fontSize
\* and lineHeight is in the built recipe only if the style's value matches an
\* entry of the map built from the Typography collection; a value with no match
\* is left out.
C11_RecipeFieldsOnlyWhenMatched ==
  StylesBuilt =>
    \A style \in GroupedStyles :
      LET maps == styles_maps(figma)
      IN /\ TokensOfStyle(style) # {}
         /\ FieldOnlyWhenMatched(style, S_fontFamily, S_fontFamily, maps.family)
         /\ FieldOnlyWhenMatched(style, S_fontWeight, S_fontStyle, maps.weight)
         /\ FieldOnlyWhenMatched(style, S_fontSize, S_fontSize, maps.size)
         /\ FieldOnlyWhenMatched(style, S_lineHeight, S_lineHeight, maps.height)

(***************************************************************************)
(* The specification of the builders that read one fixed mode: an input of *)
(* one Typography, Size or State collection, and one call of its builder.  *)
(***************************************************************************)
StateVariables ==
  {Variable(<<"h", "o", "v", "e", "r">>, "FLOAT", <<"i", "1">>, S_Mode1 :> Resolved(1)),
   Variable(<<"f", "o", "c", "u", "s">>, "FLOAT", <<"i", "2">>, S_Light :> Resolved(2)),
   Variable(<<"p", "r", "e", "s", "s", "e", "d">>, "FLOAT", <<"i", "3">>,
            S_Mode1 :> (S_aliasId :> Text(<<"i", "1">>)))}

StateCollections ==
  {Collection(S_State, <<"I">>, <<S_Mode1>>, vs) :
     vs \in VariableLists(StateVariables)}

InitModes ==
  /\ figma \in {<<x>> : x \in TypographyCollections \cup SizeCollections
                                \cup StateCollections}
  /\ styles_json = <<>>
  /\ built = None
  /\ files = [old |-> Document(<<>>), new |-> Document(<<>>)]
  /\ last = [ran |-> FALSE]
  /\ BuilderIdle

BuildTypography ==
  /\ built = None
  /\ built' = [builder |-> "typography",
               collection |-> build_typography_collection(figma)]
  /\ UNCHANGED <<figma, styles_json, differVars, builderVars>>

BuildState ==
  /\ built = None
  /\ built' = [builder |-> "state",
               collection |-> build_state_collection(figma)]
  /\ UNCHANGED <<figma, styles_json, differVars, builderVars>>

NextModes ==
  \/ BuildTypography
  \/ BuildSize
  \/ BuildState

SpecModes == InitModes /\ [][NextModes]_vars

(***************************************************************************)
(* The claims of the builders that read one fixed mode.                    *)
(***************************************************************************)
\* The mode name the builder looks the values up under.
FixedMode(builder) == IF builder = "typography" THEN S_Default ELSE S_Mode1

\* The name of the collection the builder reads.
CollectionOf(builder) ==
  CASE builder = "typography" -> S_Typography
    [] builder = "size" -> S_Size
    [] builder = "state" -> S_State

\* The group the builder puts the variable in, <<>> when it has none.
GroupOf(builder, var) ==
  CASE builder = "typography" ->
         IF /\ has_two_parts(var.name)
            /\ second_segment(var.name)
                 \in {S_family, S_weight, S_size, S_height, S_spacing}
         THEN second_segment(var.name) ELSE <<>>
    [] builder = "size" ->
         IF first_segment(var.name) \in {S_spacing, S_radius, S_stroke}
         THEN first_segment(var.name) ELSE <<>>
    [] builder = "state" -> S_interaction

\* The variables of the built collection's input that belong to a group and have
\* no value under the fixed mode.
WithoutFixedMode ==
  {var \in VariablesOf(CollectionOf(built.builder)) :
     /\ GroupOf(built.builder, var) # <<>>
     /\ FixedMode(built.builder) \notin DOMAIN var.values}

\* The tokens the built collection holds for the variable, in its group.
TokensOfVariable(var) ==
  {t \in GroupTokens(built.collection, GroupOf(built.builder, var)) :
     t[S_name] = Text(var.name) /\ t[S_figmaId] = var.id}

ValueAbsent(t) == S_value \notin DOMAIN t \/ t[S_value] = None

\* What the builders do with such a variable: it has no token at all.
WithoutFixedModeDropped ==
  built # None => \A var \in WithoutFixedMode : TokensOfVariable(var) = {}

\* C12 as stated: a Typography, Size or State variable with no value under the
\* fixed mode name of its collection raises no error and has a token in its
\* group, the token's value being absent.
C12_MissingModeTokenWithoutValue ==
  built # None =>
    \A var \in WithoutFixedMode :
      /\ TokensOfVariable(var) # {}
      /\ \A t \in TokensOfVariable(var) : ValueAbsent(t)

(***************************************************************************)
(* build_tokens.py: main().                                                *)
(*                                                                         *)
(* A file is [exists |-> FALSE] or [exists, data, mtime]; data is          *)
(* [kind |-> "object", doc |-> the parsed tokens document] or, for a file  *)
(* that holds something else, [kind |-> k]:                                *)
(*   "invalid_json"  text json.load cannot parse (a truncated write),      *)
(*   "not_utf8"      bytes open(path, 'r') cannot decode,                  *)
(*   "scalar"        the JSON text null, true or a number,                 *)
(*   "array"         a JSON array without the element "changelog".         *)
(* The clock counts half seconds and every reading is later than the one   *)
(* before; a run reads it once (exportedAt, the backup's stamp and the     *)
(* written file's mtime are that reading).                                 *)
(***************************************************************************)
\* backups[:-10]
KeepBackups == 10
\* runs of the builder, with the output file edited between them
MaxRuns == 3
\* runs of the builder, one after the other
MaxRunsLong == 13

\* collections = {"color": ..., "typography": ..., "size": ..., "styles": ...,
\* "state": ...}: the dict in insertion order, without its "color" entry
build_collections(figma_data, text_styles) ==
  <<[key |-> <<"t", "y", "p", "o", "g", "r", "a", "p", "h", "y">>] @@ build_typography_collection(figma_data),
    [key |-> S_size] @@ build_size_collection(figma_data),
    [key |-> <<"s", "t", "y", "l", "e", "s">>] @@ build_styles_collection(figma_data, text_styles),
    [key |-> <<"s", "t", "a", "t", "e">>] @@ build_state_collection(figma_data)>>

\* The mutant of stamp_of: the stamp leaves out the seconds ("%Y%m%d-%H%M").
stamp_of_minutes(now) == now \div 120

\* datetime.now(timezone.utc).strftime("%Y%m%d-%H%M%S"): whole seconds
stamp_of(now) == now \div 2

\* shutil.copy2(output_path, backup_path): the content and the mtime of the source
copy2(dir, name, file) == Put(dir, name, [data |-> file.data, mtime |-> file.mtime])

\* The mutant of prune_choices: backups[:10] is kept, the newest are deleted.
prune_choices_keeps_oldest(dir) ==
  LET names == DOMAIN dir
      n == Cardinality(names)
  IN IF n > KeepBackups
     THEN {D \in SUBSET names :
             /\ Cardinality(D) = n - KeepBackups
             /\ \A d \in D, k \in names \ D : dir[d].mtime >= dir[k].mtime}
     ELSE {{}}

\* backups = sorted(glob("tokens-*.json"), key=mtime); if len(backups) > 10:
\* unlink backups[:-10].  The sets of files the code may delete: sorted() keeps
\* files of equal mtime in the order glob yields them, which is any order.
prune_choices(dir) ==
  LET names == DOMAIN dir
      n == Cardinality(names)
  IN IF n > KeepBackups
     THEN {D \in SUBSET names :
             /\ Cardinality(D) = n - KeepBackups
             /\ \A d \in D, k \in names \ D : dir[d].mtime <= dir[k].mtime}
     ELSE {{}}

\* except (json.JSONDecodeError, KeyError): pass
caught(exception) == exception \in {"JSONDecodeError", "KeyError"}

\* with open(output_path, 'r') as f: existing = json.load(f)
\* if "changelog" in existing: ... existing["changelog"]
read_existing(data) ==
  CASE data.kind = "object" ->
         [raised |-> "none", found |-> data.doc.has_changelog,
          changelog |-> data.doc.changelog]
    [] data.kind = "invalid_json" ->
         [raised |-> "JSONDecodeError", found |-> FALSE, changelog |-> <<>>]
    [] data.kind = "not_utf8" ->
         [raised |-> "UnicodeDecodeError", found |-> FALSE, changelog |-> <<>>]
    [] data.kind = "scalar" ->
         [raised |-> "TypeError", found |-> FALSE, changelog |-> <<>>]
    [] data.kind = "array" ->
         [raised |-> "none", found |-> FALSE, changelog |-> <<>>]

\* The mutant of carry_changelog: the changelog is not copied.
carry_changelog_dropped(output_dict, existing) == output_dict

\* if "changelog" in existing: output["changelog"] = existing["changelog"]
carry_changelog(output_dict, existing) ==
  IF existing.found
  THEN [output_dict EXCEPT !.has_changelog = TRUE,
                           !.changelog = existing.changelog]
  ELSE output_dict

Unreadable == [ok |-> FALSE]
Readable(data) == [ok |-> TRUE, data |-> data]

\* Lines 313-315: style["name"] raises KeyError for a text style without a name,
\* while the collections are built.
build_raises(figma_data, styles) ==
  \E i \in 1..Len(styles) : S_name \notin DOMAIN styles[i]

\* The mutant of main_load: the existing output file is copied into .backups
\* before the inputs are read.
main_load_late(limit, variables_files, styles_files, output_files, ticks) ==
  /\ pc = "idle"
  /\ runs < limit
  /\ \E p \in output_files : output_file' = p
  /\ \E vf \in variables_files, sf \in styles_files :
       IF ~vf.ok \/ ~sf.ok \/ build_raises(vf.data, sf.data)
       THEN /\ pc' = "idle"
            /\ exit' = "input error"
            /\ runs' = runs + 1
            /\ UNCHANGED <<clock, locals, reads>>
            /\ backups' = IF outputs[output_file'].exists
                           THEN copy2(backups, stamp_of(clock + 1),
                                      outputs[output_file'])
                           ELSE backups
       ELSE \E now \in {clock + t : t \in ticks} :
              /\ clock' = now
              /\ reads' = reads \cup {now}
              /\ locals' = [figma_data |-> vf.data, text_styles |-> sf.data,
                            output |-> [exportedAt |-> now,
                                        collections |->
                                          build_collections(vf.data, sf.data),
                                        has_changelog |-> FALSE,
                                        changelog |-> <<>>]]
              /\ pc' = "backup"
              /\ UNCHANGED <<runs, exit, backups>>
  /\ UNCHANGED <<outputs, created, deleted>>
  /\ UNCHANGED <<differVars, collectionVars>>

\* Lines 434-459: load the two inputs, build the collections and the output
\* dict.  A missing or malformed input raises out of main().
main_load(limit, variables_files, styles_files, output_files, ticks) ==
  /\ pc = "idle"
  /\ runs < limit
  /\ \E p \in output_files : output_file' = p
  /\ \E vf \in variables_files, sf \in styles_files :
       IF ~vf.ok \/ ~sf.ok \/ build_raises(vf.data, sf.data)
       THEN /\ pc' = "idle"
            /\ exit' = "input error"
            /\ runs' = runs + 1
            /\ UNCHANGED <<clock, locals, reads>>
       ELSE \E now \in {clock + t : t \in ticks} :
              /\ clock' = now
              /\ reads' = reads \cup {now}
              /\ locals' = [figma_data |-> vf.data, text_styles |-> sf.data,
                            output |-> [exportedAt |-> now,
                                        collections |->
                                          build_collections(vf.data, sf.data),
                                        has_changelog |-> FALSE,
                                        changelog |-> <<>>]]
              /\ pc' = "backup"
              /\ UNCHANGED <<runs, exit>>
  /\ UNCHANGED <<outputs, backups, created, deleted>>
  /\ UNCHANGED <<differVars, collectionVars>>

\* Lines 461-469: copy an existing output file into .backups
main_backup ==
  /\ pc = "backup"
  /\ IF output.exists
     THEN /\ backups' = copy2(backups, stamp_of(clock), output)
          /\ created' = created \cup {stamp_of(clock)}
          /\ pc' = "prune"
     ELSE /\ pc' = "changelog"
          /\ UNCHANGED <<backups, created>>
  /\ UNCHANGED <<reads, outputs, output_file, clock, locals, runs, exit,
               deleted>>
  /\ UNCHANGED <<differVars, collectionVars>>

\* Lines 471-476: keep only the 10 most recent backups
main_prune ==
  /\ pc = "prune"
  /\ \E D \in prune_choices(backups) :
       /\ backups' = [k \in (DOMAIN backups) \ D |-> backups[k]]
       /\ deleted' = deleted \cup D
  /\ pc' = "changelog"
  /\ UNCHANGED <<reads, outputs, output_file, clock, locals, runs, exit,
               created>>
  /\ UNCHANGED <<differVars, collectionVars>>

\* Lines 478-487: preserve the changelog of the existing output file
main_changelog ==
  /\ pc = "changelog"
  /\ IF ~output.exists
     THEN /\ pc' = "write"
          /\ UNCHANGED <<locals, runs, exit>>
     ELSE LET existing == read_existing(output.data)
          IN IF existing.raised = "none"
             THEN /\ locals' = [locals EXCEPT
                                  !.output = carry_changelog(@, existing)]
                  /\ pc' = "write"
                  /\ UNCHANGED <<runs, exit>>
             ELSE IF caught(existing.raised)
             THEN /\ pc' = "write"
                  /\ UNCHANGED <<locals, runs, exit>>
             ELSE /\ pc' = "idle"
                  /\ exit' = existing.raised
                  /\ runs' = runs + 1
                  /\ locals' = None
  /\ UNCHANGED <<reads, outputs, output_file, backups, clock, created, deleted>>
  /\ UNCHANGED <<differVars, collectionVars>>

\* Lines 489-508: write the output file
main_write ==
  /\ pc = "write"
  /\ outputs' = [outputs EXCEPT
                    ![output_file] = [exists |-> TRUE,
                                      data |-> [kind |-> "object",
                                                doc |-> locals.output],
                                      mtime |-> clock]]
  /\ pc' = "idle"
  /\ exit' = "ok"
  /\ runs' = runs + 1
  /\ locals' = None
  /\ UNCHANGED <<reads, output_file, backups, clock, created, deleted>>
  /\ UNCHANGED <<differVars, collectionVars>>

\* A run of diff_tokens.py <a backup> <the output file> between two builds.
differ_on_output ==
  /\ pc = "idle"
  /\ output.exists
  /\ output.data.kind = "object"
  /\ \E b \in DOMAIN backups :
       /\ backups[b].data.kind = "object"
       /\ LET run == diff_main(backups[b].data.doc, output.data.doc, None,
                               clock + 1)
          IN /\ run.wrote
             /\ changelog_length(run.written) <= MaxLog
             /\ outputs' = [outputs EXCEPT
                               ![output_file].data.doc = run.written,
                               ![output_file].mtime = clock + 1]
  /\ clock' = clock + 1
  /\ UNCHANGED <<reads, output_file, backups, pc, locals, runs, exit, created,
               deleted>>
  /\ UNCHANGED <<differVars, collectionVars>>

CorruptKinds == {"invalid_json", "not_utf8", "scalar", "array"}

\* The output file is overwritten with something that is no tokens document (a
\* write cut short, an edit by hand).
output_corrupted ==
  /\ pc = "idle"
  /\ output.exists
  /\ output.data.kind = "object"
  /\ \E k \in CorruptKinds :
       outputs' = [outputs EXCEPT
                     ![output_file] = [exists |-> TRUE, data |-> [kind |-> k],
                                       mtime |-> clock + 1]]
  /\ clock' = clock + 1
  /\ UNCHANGED <<reads, output_file, backups, pc, locals, runs, exit, created,
               deleted>>
  /\ UNCHANGED <<differVars, collectionVars>>

(***************************************************************************)
(* The builder's specifications.  SpecBuild: a few runs on inputs that     *)
(* differ or cannot be read, with the differ and corruption acting on the  *)
(* output file between the runs.  SpecBackups: a long sequence of runs     *)
(* from an empty directory, enough for the backups to be pruned.           *)
(* SpecShared: the same with two output files in the one directory.       *)
(***************************************************************************)
FigmaA ==
  <<Collection(S_Color, <<"C">>, <<S_Light, S_Dark>>,
               <<Variable(S_stroke \o <<"/", "x">>, "FLOAT", <<"c", "1">>,
                          S_Light :> Resolved(1))>>),
    Collection(S_Size, <<"S">>, <<S_Mode1>>,
               <<Variable(S_spacing \o <<"/", "s">>, "FLOAT", <<"s", "2">>,
                          S_Mode1 :> Resolved(2))>>)>>

FigmaB ==
  <<Collection(S_Size, <<"S">>, <<S_Mode1>>,
               <<Variable(S_spacing \o <<"/", "s">>, "FLOAT", <<"s", "2">>,
                          S_Mode1 :> Resolved(1))>>)>>

InitBuilder ==
  /\ BuilderIdle
  /\ CollectionsIdle
  /\ files = [old |-> Document(<<>>), new |-> Document(<<>>)]
  /\ last = [ran |-> FALSE]

VariablesFiles == {Readable(FigmaA), Readable(FigmaB), Unreadable}
\* no text style, a text style without a name, a file that cannot be read
StylesFiles ==
  {Readable(<<>>), Readable(<<S_fontSize :> Num(1)>>), Unreadable}

NextBuild ==
  \/ main_load(MaxRuns, VariablesFiles, StylesFiles, {"tokens.json"}, {1, 2})
  \/ main_backup
  \/ main_prune
  \/ main_changelog
  \/ main_write
  \/ differ_on_output
  \/ output_corrupted

SpecBuild == InitBuilder /\ [][NextBuild]_vars

NextBackups ==
  \/ main_load(MaxRunsLong, {Readable(<<>>)}, {Readable(<<>>)},
               {"tokens.json"}, {1, 2})
  \/ main_backup
  \/ main_prune
  \/ main_changelog
  \/ main_write

SpecBackups == InitBuilder /\ [][NextBackups]_vars

\* Runs that write two output files of one directory, each run in a second of
\* its own.
NextShared ==
  \/ main_load(MaxRunsLong, {Readable(<<>>)}, {Readable(<<>>)}, OutputFiles, {2})
  \/ main_backup
  \/ main_prune
  \/ main_changelog
  \/ main_write

SpecShared == InitBuilder /\ [][NextShared]_vars

(***************************************************************************)
(* The builder's claims.                                                   *)
(***************************************************************************)
\* The step that writes the output file and ends the run.
WriteStep == pc = "write" /\ pc' = "idle"

HoldsDocument(file) == file.exists /\ file.data.kind = "object"

\* C5: when the output path holds a tokens document with a changelog, the output
\* the builder writes holds that changelog unchanged, with exportedAt and
\* collections those of this run.
C5_ChangelogCarriedForward ==
  [][(/\ WriteStep
      /\ HoldsDocument(output)
      /\ output.data.doc.has_changelog)
     => (/\ HoldsDocument(output')
         /\ output'.data.doc.has_changelog
         /\ output'.data.doc.changelog = output.data.doc.changelog
         /\ output'.data.doc.exportedAt = clock
         /\ output'.data.doc.exportedAt > output.data.doc.exportedAt
         /\ output'.data.doc.collections =
              build_collections(locals.figma_data, locals.text_styles))]_vars

\* C5's case: the builder has written an output that holds an entry the differ
\* had appended to the output before the run.
C5_Witness ==
  /\ pc = "idle"
  /\ exit = "ok"
  /\ HoldsDocument(output)
  /\ output.mtime = output.data.doc.exportedAt
  /\ output.data.doc.has_changelog
  /\ Len(output.data.doc.changelog) >= 1

\* The prior output is missing or is no tokens document.
PriorMissingOrCorrupt == ~output.exists \/ output.data.kind # "object"

\* C6 as stated: with the prior output missing or corrupt the run does not fail:
\* it goes on from the changelog step to the write, and the output it writes has
\* no changelog.
C6_CorruptPriorTolerated ==
  [][/\ (pc = "changelog" /\ PriorMissingOrCorrupt)
          => (pc' = "write" /\ ~locals'.output.has_changelog)
     /\ (WriteStep /\ PriorMissingOrCorrupt)
          => (HoldsDocument(output') /\ ~output'.data.doc.has_changelog)]_vars

\* C7: a run that finds an output file has copied it into .backups, under this
\* run's stamp, before it overwrites it, and the copy is there, with the content
\* the output file had before the run, when the run completes.
C7_BackupBeforeOverwrite ==
  [][/\ (pc = "backup" \/ pc = "prune" \/ pc = "changelog") => output' = output
     /\ (WriteStep /\ output.exists)
          => (/\ stamp_of(clock) \in DOMAIN backups
              /\ backups[stamp_of(clock)].data = output.data
              /\ backups' = backups)]_vars

\* C7's case: a run that pruned the backups has completed and the backup it made
\* is in the directory.
C7_Witness ==
  /\ pc = "idle"
  /\ exit = "ok"
  /\ deleted # {}
  /\ stamp_of(clock) \in DOMAIN backups
  /\ backups[stamp_of(clock)].data # output.data

\* C8: at the end of a run .backups holds at most 10 files, and when pruning
\* deletes files it keeps 10, unchanged, none of them older than a deleted one.
C8_AtMostTenMostRecentKept ==
  [][/\ pc' = "idle" => Cardinality(DOMAIN backups') <= 10
     /\ (pc = "prune" /\ DOMAIN backups' # DOMAIN backups)
          => LET kept == DOMAIN backups'
                 gone == (DOMAIN backups) \ kept
             IN /\ kept \subseteq DOMAIN backups
                /\ Cardinality(kept) = 10
                /\ \A k \in kept : backups'[k] = backups[k]
                /\ \A g \in gone, k \in kept :
                     backups[g].mtime <= backups[k].mtime]_vars

\* C8's case: pruning has deleted a file twice and 10 files are left.
C8_Witness ==
  /\ pc = "idle"
  /\ Cardinality(deleted) = 2
  /\ Cardinality(DOMAIN backups) = 10

\* No two runs read the clock in the same second.
DistinctSeconds == Cardinality({t \div 2 : t \in reads}) = Cardinality(reads)

Oldest(S, n) == {x \in S : Cardinality({y \in S : y < x}) < n}

\* C9 as stated: after 12 runs from no output and no backups, exactly 10 backup
\* files remain and the 2 oldest backups have been deleted.
C9_TenRemainTwoDeleted ==
  (runs = 12 /\ pc = "idle")
    => (/\ Cardinality(DOMAIN backups) = 10
        /\ Cardinality(deleted) = 2
        /\ deleted = Oldest(created, 2))

\* C9 as amended: after 12 runs from no output and no backups, at most 10 backup
\* files remain and at most one has been deleted; when no two runs read the clock
\* in the same second, 11 backups were made, exactly 10 remain and exactly one,
\* the oldest, has been deleted.
C9_TenRemainOneDeleted ==
  (runs = 12 /\ pc = "idle")
    => (/\ Cardinality(DOMAIN backups) <= 10
        /\ Cardinality(deleted) <= 1
        /\ DistinctSeconds
             => (/\ Cardinality(created) = 11
                 /\ Cardinality(DOMAIN backups) = 10
                 /\ deleted = Oldest(created, 1)
                 /\ DOMAIN backups = created \ deleted))

\* C9's case: 12 runs in 12 different seconds have completed.
C9_Witness ==
  /\ runs = 12
  /\ pc = "idle"
  /\ exit = "ok"
  /\ Cardinality(reads) = 12
  /\ DistinctSeconds
  /\ Cardinality(deleted) = 1

\* A run ends because an input file is missing or malformed.
InputAbort == pc = "idle" /\ pc' = "idle" /\ runs' = runs + 1

\* C13: a run that aborts on a missing or malformed input file leaves the output
\* files, with their changelog, and the backup directory exactly as they were:
\* no backup is made, nothing is pruned, nothing is overwritten.
C13_InputAbortHasNoSideEffect ==
  [][InputAbort
       => (/\ exit' = "input error"
           /\ outputs' = outputs
           /\ backups' = backups
           /\ created' = created
           /\ deleted' = deleted)]_vars

\* C13's case: a run has aborted on its input with an output file that holds a
\* changelog and a backup on disk.
C13_Witness ==
  /\ pc = "idle"
  /\ exit = "input error"
  /\ HoldsDocument(output)
  /\ output.data.doc.has_changelog
  /\ DOMAIN backups # {}

====
